---- MODULE Spec2Model ----
(***************************************************************************)
(* A model of TinyFunctional's single-slot containers.                     *)
(*                                                                         *)
(* Optional<T> is modelled from TinyFunctionalTypes.hpp (the revision the  *)
(* optional tests include).  OneOf<A,B> is the same text in both headers.  *)
(*                                                                         *)
(* T is either trivially destructible (int: the second Storage             *)
(* specialisation, whose reset() only clears the flag) or not              *)
(* (std::string, Person: the first specialisation, whose reset() runs the  *)
(* destructor).  A value of T is a small natural; U is a second type       *)
(* convertible to T (float to int), a value of U counting halves.          *)
(***************************************************************************)
EXTENDS Integers, Sequences, FiniteSets, TLC

\* ------------------------------------------------------------------ bounds

\* The largest value of T the model draws.
MaxVal == 1

\* The values of the contained type T.
Val == 0..MaxVal

\* The values of a convertible type U (float), in halves: u stands for u/2.
UVal == 0..(2 * MaxVal + 1)

\* ------------------------------------------------------- values and inputs

\* static_cast<T>(U): float to int truncates towards zero.
static_cast_T(u) == u \div 2

\* A constructor or conversion argument: a T, or a U that is converted.
Args == [type : {"T"}, v : Val] \cup [type : {"U"}, v : UVal]

\* value(v) in Storage's constructors: T initialised from the argument.
InitT(arg) == IF arg.type = "T" THEN arg.v ELSE static_cast_T(arg.v)

\* T{args...} of make_optional: T{} is value-initialised, T{a} holds a.
BraceInitT(args) == IF Len(args) = 0 THEN 0 ELSE args[1]

\* The argument packs emplace and make_optional are given.
ArgPacks == {<<>>} \cup {<<v>> : v \in Val}

\* ------------------------------------------------------------------ Storage

(* struct Storage: the flag, the union's T member, and whether the bytes   *)
(* of the member hold a T (false after Storage(void), which initialises no *)
(* member, and after the destructor has run on it).  While no T is held    *)
(* the bytes are indeterminate and the field value stands for nothing.     *)
Storage_void == [has_value |-> FALSE, value |-> 0, live |-> FALSE]

\* Storage's value constructor with has_value(true) left out.
Storage_from_unset(arg) ==
    [has_value |-> FALSE, value |-> InitT(arg), live |-> TRUE]

\* Storage(U&& v) and Storage(const U& v): value(v), has_value(true).
Storage_from(arg) == [has_value |-> TRUE, value |-> InitT(arg), live |-> TRUE]

(* Storage::reset.  The first specialisation runs value.T::~T() when the   *)
(* flag is set; the one for trivially destructible T only clears the flag  *)
(* and leaves the bytes of the member as they are.                         *)
Storage_reset(trivial, s) ==
    IF trivial
    THEN [s EXCEPT !.has_value = FALSE]
    ELSE IF s.has_value
         THEN [has_value |-> FALSE, value |-> 0, live |-> FALSE]
         ELSE [s EXCEPT !.has_value = FALSE]

\* What a read of m_storage.value can yield: the T held, or anything.
ReadValue(s) == IF s.live THEN {s.value} ELSE Val

\* ----------------------------------------------------------------- Optional

\* The result of an operation that may throw or abort.
Done(s) == [st |-> s, threw |-> FALSE, abort |-> FALSE]
Threw(s) == [st |-> s, threw |-> TRUE, abort |-> FALSE]
Abort(s) == [st |-> s, threw |-> FALSE, abort |-> TRUE]

\* Optional(void) and Optional(nullvalue_t): m_storage is Storage(void).
Optional_void == Storage_void

\* Optional(U&& u) : m_storage(std::forward<U>(u)), and Optional(const U&).
Optional_from(arg) == Storage_from(arg)

\* Optional::reset.
reset(trivial, s) == Storage_reset(trivial, s)

\* Optional::has_value and operator bool.
has_value(s) == s.has_value

(* operator=(T&&) and operator=(const T&): reset(); m_storage.value = rhs; *)
(* m_storage.has_value = true.  For a trivially destructible T the         *)
(* assignment writes the member.  Otherwise it calls T::operator= on       *)
(* storage that holds no T (reset() has just destroyed it, or none was     *)
(* ever constructed): undefined behaviour, which the build either survives *)
(* (the bytes happened to be a usable T) or does not (double free, wild    *)
(* pointer), the process ending inside the assignment, before the flag is  *)
(* set.                                                                    *)
assign_value(trivial, s, rhs) ==
    LET r == reset(trivial, s)
        set == [has_value |-> TRUE, value |-> rhs, live |-> TRUE]
    IN  IF trivial \/ r.live THEN {Done(set)} ELSE {Done(set), Abort(r)}

\* operator=(nullvalue_t): reset().
assign_nullvalue(trivial, s) == reset(trivial, s)

\* Optional assignment that resets only when it has a value to take.
assign_optional_noreset(trivial, s, rhs) ==
    IF rhs.has_value THEN rhs ELSE s

(* operator=(const Optional<U>&) and operator=(Optional<U>&&):             *)
(* reset(); if (rhs.has_value()) m_storage = rhs.m_storage.  Storage's     *)
(* assignment is the implicit one, a copy of both members; it exists only  *)
(* for a trivially destructible T.                                         *)
assign_optional(trivial, s, rhs) ==
    LET r == reset(trivial, s)
    IN  IF has_value(rhs) THEN rhs ELSE r

\* The implicit Optional& operator=(const Optional&): m_storage = rhs.m_storage.
assign_implicit(s, rhs) == rhs

\* get_value without its check.
get_value_unchecked(s) == {[threw |-> FALSE, v |-> x] : x \in ReadValue(s)}

(* get_value: if (!has_value()) throw BadAccess(); return m_storage.value. *)
get_value(s) ==
    IF ~has_value(s) THEN {[threw |-> TRUE, v |-> 0]}
    ELSE {[threw |-> FALSE, v |-> x] : x \in ReadValue(s)}

\* operator*: return m_storage.value, with no check.
deref(s) == ReadValue(s)

(* Optional(Optional<U>&& opt) and Optional(const Optional<U>& opt):       *)
(* reset(); *this = opt.get_value().  get_value throws on a disengaged     *)
(* source, and the constructor is left by the exception.                   *)
Optional_from_optional(trivial, opt) ==
    LET fresh == reset(trivial, Storage_void)
    IN  UNION {IF g.threw THEN {Threw(fresh)}
               ELSE assign_value(trivial, fresh, g.v) : g \in get_value(opt)}

\* make_optional that drops its arguments: Optional<T>{T{}}.
make_optional_noargs(args) == Optional_from([type |-> "T", v |-> 0])

\* make_optional<T>(args...): Optional<T>{T{args...}}.
make_optional(args) == Optional_from([type |-> "T", v |-> BraceInitT(args)])

\* emplace: reset(); *this = make_optional<T>(args...).
emplace(trivial, s, args) ==
    assign_optional(trivial, reset(trivial, s), make_optional(args))

(* emplace when T{args...} in make_optional throws: reset() has run, and    *)
(* the exception leaves emplace before the assignment.                     *)
emplace_throwing(trivial, s) == reset(trivial, s)

(* operator=(Optional<U>&&) and operator=(const Optional<U>&) with the     *)
(* object itself as rhs: reset(); if (rhs.has_value()) m_storage =         *)
(* rhs.m_storage, where rhs.has_value() reads the flag reset() cleared.    *)
assign_optional_self(trivial, s) ==
    LET r == reset(trivial, s)
        rhs == r
    IN  IF has_value(rhs) THEN rhs ELSE r

(* Whether the operation named leaves in the slot a T that a constructor   *)
(* has made and no destructor has ended.  Storage's value constructors     *)
(* construct the member; reset() and ~Storage() end it; operator=(T), used *)
(* by the constructors from an Optional too, assigns to the member after   *)
(* reset(), which constructs nothing: only for a trivially destructible T  *)
(* does an assignment to the union's member begin its lifetime.            *)
holds_constructed(trivial, name, s) ==
    CASE name \in {"assign_value", "Optional_from_optional"} ->
             trivial /\ s.has_value
      [] name = "destroy" -> FALSE
      [] OTHER -> s.has_value

(* The flag of the test's class Loud after the library ran the operation   *)
(* named on the storage s0: Loud's constructor clears it, ~Loud sets it.   *)
(* make_optional builds T{args...}, copies it into the Optional it returns *)
(* and destroys it at the end of the return statement; reset() and         *)
(* ~Storage() destroy the occupant of a set flag; the value handed to a    *)
(* constructor or to operator=(T) is the caller's and outlives the call.   *)
(* A trivially destructible T has no destructor to set the flag.           *)
Loud_mdf(trivial, name, s0, mdf) ==
    IF trivial THEN FALSE
    ELSE CASE name = "make_optional" -> TRUE
           [] name \in {"Optional_from", "Optional_from_U"} -> FALSE
           [] name = "assign_value" -> s0.has_value
           [] name \in {"reset", "assign_nullvalue", "destroy"} ->
                  mdf \/ s0.has_value
           [] OTHER -> mdf

\* -------------------------------------------------------------- callables

(* What a callable handed to and_then or or_else returns: an Optional that *)
(* it constructs empty (has = FALSE) or from a value.                      *)
FRes == {[has |-> FALSE, v |-> 0]} \cup {[has |-> TRUE, v |-> x] : x \in Val}

\* The Optional a callable's result stands for.
FnResult(r) == IF r.has THEN Optional_from([type |-> "T", v |-> r.v])
               ELSE Optional_void

\* The one-argument callables and_then is given: any function of the value.
Fn == [Val -> FRes]

\* and_then without the engagement test: f is always invoked.
and_then_unchecked(s, f) ==
    {[res |-> FnResult(f[x]), calls |-> <<[args |-> <<x>>, res |-> f[x]]>>] :
        x \in deref(s)}

(* and_then: engaged ? std::invoke(f, **this) : R{}, R the callable's      *)
(* result type without cv and reference.  The result, and for each call of *)
(* f its arguments and what it returned.                                   *)
and_then(s, f) ==
    IF has_value(s)
    THEN {[res |-> FnResult(f[x]), calls |-> <<[args |-> <<x>>, res |-> f[x]]>>] :
             x \in deref(s)}
    ELSE {[res |-> Optional_void, calls |-> << >>]}

(* or_else const&: engaged ? *this : f().  The copy of *this is the    *)
(* implicit copy constructor's, which exists for a trivially destructible  *)
(* T only.  r is what f returns.                                           *)
or_else_const(s, r) ==
    IF has_value(s)
    THEN [res |-> s, calls |-> << >>]
    ELSE [res |-> FnResult(r), calls |-> <<[args |-> << >>, res |-> r]>>]

(* or_else &&: engaged ? std::move( *this ) : f().  The result is        *)
(* constructed from the xvalue by Optional(Optional<U>&&).                 *)
or_else_rvalue(trivial, s, r) ==
    IF has_value(s)
    THEN {[res |-> c.st, calls |-> << >>, abort |-> c.abort] :
             c \in Optional_from_optional(trivial, s)}
    ELSE {[res |-> FnResult(r), calls |-> <<[args |-> << >>, res |-> r]>>,
           abort |-> FALSE]}

\* get_value_or with the branches of its conditional exchanged.
get_value_or_swapped(s, other) ==
    IF s.has_value THEN {InitT(other)} ELSE ReadValue(s)

(* get_value_or: engaged ? m_storage.value : static_cast<T>(other).    *)
get_value_or(s, other) ==
    IF has_value(s) THEN ReadValue(s) ELSE {InitT(other)}

\* --------------------------------------------- the Optional under operation

VARIABLES
    T_trivial,   \* T is trivially destructible (which Storage is instantiated)
    phase,       \* "none", "alive", "destroyed", "aborted"
    m_storage,   \* Optional::m_storage of the object
    op,          \* the last constructor or mutator run on it, and its value
    query,       \* the last accessor or combinator run since
    ret,         \* what that accessor or combinator gave the caller
    invoked,     \* each call it made of its callable: arguments and result
    constructed, \* the slot holds a T that a constructor made
    destructed   \* the flag that the destructor of the test's T sets

ovars == <<T_trivial, phase, m_storage, op, query, ret, invoked,
           constructed, destructed>>

NoRet == [kind |-> "none", b |-> FALSE, v |-> 0, o |-> Storage_void]
RetBool(b) == [NoRet EXCEPT !.kind = "bool", !.b = b]
RetValue(v) == [NoRet EXCEPT !.kind = "value", !.v = v]
RetBadAccess == [NoRet EXCEPT !.kind = "BadAccess"]
RetOptional(o) == [NoRet EXCEPT !.kind = "optional", !.o = o]

Op(name, v) == [name |-> name, v |-> v]

\* The object after a moved-from read of its value (T&& handed on).
MovedFrom(trivial, s) ==
    IF trivial \/ ~s.live THEN {s} ELSE {[s EXCEPT !.value = x] : x \in Val}

OptionalInit ==
    /\ T_trivial \in BOOLEAN
    /\ phase = "none"
    /\ m_storage = Storage_void
    /\ op = Op("none", 0)
    /\ query = "none"
    /\ ret = NoRet
    /\ invoked = << >>
    /\ constructed = FALSE
    /\ destructed = FALSE

\* A constructor or mutator ran: nothing has been asked of the object since.
Mutated(name, v, s) ==
    /\ m_storage' = s
    /\ op' = Op(name, v)
    /\ query' = "none"
    /\ ret' = NoRet
    /\ invoked' = << >>
    /\ constructed' = holds_constructed(T_trivial, name, s)
    /\ destructed' = Loud_mdf(T_trivial, name, m_storage, destructed)
    /\ UNCHANGED T_trivial

\* An accessor or combinator ran.
Asked(name, r, calls) ==
    /\ query' = name
    /\ ret' = r
    /\ invoked' = calls
    /\ UNCHANGED <<T_trivial, op, constructed, destructed>>

(* An accessor or combinator ran on the object as an rvalue and handed its *)
(* value on as T&&: the object is left as s, moved from when that differs. *)
AskedMoving(name, r, calls, s) ==
    /\ query' = name
    /\ ret' = r
    /\ invoked' = calls
    /\ m_storage' = s
    /\ op' = IF s = m_storage THEN op ELSE Op("moved_from", 0)
    /\ UNCHANGED <<T_trivial, constructed, destructed>>

\* The outcome c of an operation that can end the process.
Outcome(name, v, c) ==
    /\ phase' = IF c.abort THEN "aborted" ELSE "alive"
    /\ Mutated(name, v, c.st)

CanConstruct == phase \in {"none", "destroyed"}

\* f::Optional<T> p;
DefaultConstruct ==
    /\ CanConstruct
    /\ phase' = "alive"
    /\ Mutated("Optional_void", 0, Optional_void)

\* f::Optional<T> p{f::nullvalue};
NullvalueConstruct ==
    /\ CanConstruct
    /\ phase' = "alive"
    /\ Mutated("Optional_nullvalue", 0, Optional_void)

\* f::Optional<T> p(value); p{value}; p = value;
ValueConstruct(arg) ==
    /\ CanConstruct
    /\ phase' = "alive"
    /\ Mutated(IF arg.type = "T" THEN "Optional_from" ELSE "Optional_from_U",
               arg.v, Optional_from(arg))

(* The Optionals an operation can be handed as its source: empty, engaged, *)
(* and, for a trivially destructible T, emptied by reset() with the bytes  *)
(* of the last value still in place.                                       *)
OptSources(trivial) ==
    {Optional_void}
    \cup {Optional_from([type |-> "T", v |-> x]) : x \in Val}
    \cup (IF trivial
          THEN {reset(trivial, Optional_from([type |-> "T", v |-> x])) : x \in Val}
          ELSE {})

\* f::Optional<T> p{std::move(opt)}; f::Optional<T> p(f::Optional<U>(...));
OptionalConstruct(opt) ==
    /\ CanConstruct
    /\ \E c \in Optional_from_optional(T_trivial, opt) :
          IF c.threw
          THEN /\ phase' = phase
               /\ m_storage' = c.st
               /\ op' = Op("Optional_from_optional", 0)
               /\ query' = "none"
               /\ ret' = RetBadAccess
               /\ invoked' = << >>
               /\ constructed' = FALSE
               /\ UNCHANGED <<T_trivial, destructed>>
          ELSE Outcome("Optional_from_optional",
                       IF opt.has_value THEN opt.value ELSE 0, c)

\* p = value;
AssignValue(rhs) ==
    /\ phase = "alive"
    /\ \E c \in assign_value(T_trivial, m_storage, rhs) :
          Outcome("assign_value", rhs, c)

\* p = f::nullvalue;
AssignNullvalue ==
    /\ phase = "alive"
    /\ phase' = phase
    /\ Mutated("assign_nullvalue", 0, assign_nullvalue(T_trivial, m_storage))

\* p.reset();
Reset ==
    /\ phase = "alive"
    /\ phase' = phase
    /\ Mutated("reset", 0, reset(T_trivial, m_storage))

(* p = rhs through operator=(const Optional<U>&): chosen for a source that *)
(* the implicit copy assignment does not take.                             *)
AssignOptionalCopy(rhs) ==
    /\ phase = "alive"
    /\ T_trivial
    /\ phase' = phase
    /\ Mutated("assign_optional_copy", IF rhs.has_value THEN rhs.value ELSE 0,
               assign_optional(T_trivial, m_storage, rhs))

\* p = std::move(rhs); p = f::Optional<T>(...);
AssignOptionalMove(rhs) ==
    /\ phase = "alive"
    /\ T_trivial
    /\ phase' = phase
    /\ Mutated("assign_optional_move", IF rhs.has_value THEN rhs.value ELSE 0,
               assign_optional(T_trivial, m_storage, rhs))

\* p = rhs; for an lvalue rhs of the same Optional<T>.
AssignImplicit(rhs) ==
    /\ phase = "alive"
    /\ T_trivial
    /\ phase' = phase
    /\ Mutated("assign_implicit", IF rhs.has_value THEN rhs.value ELSE 0,
               assign_implicit(m_storage, rhs))

\* p.emplace(args...);
Emplace(args) ==
    /\ phase = "alive"
    /\ T_trivial
    /\ phase' = phase
    /\ Mutated("emplace", BraceInitT(args), emplace(T_trivial, m_storage, args))

\* p.emplace(args...); where the constructor of T throws, caught by the caller
EmplaceThrows ==
    /\ phase = "alive"
    /\ T_trivial
    /\ phase' = phase
    /\ Mutated("emplace_threw", 0, emplace_throwing(T_trivial, m_storage))

\* p = std::move(p); p.operator=<T>(p);
AssignSelf ==
    /\ phase = "alive"
    /\ T_trivial
    /\ phase' = phase
    /\ Mutated("assign_optional_self", 0, assign_optional_self(T_trivial, m_storage))

\* p = p;
AssignSelfImplicit ==
    /\ phase = "alive"
    /\ T_trivial
    /\ phase' = phase
    /\ Mutated("assign_implicit_self", 0, assign_implicit(m_storage, m_storage))

\* auto p = f::make_optional<T>(args...);
MakeOptional(args) ==
    /\ CanConstruct
    /\ phase' = "alive"
    /\ Mutated("make_optional", BraceInitT(args), make_optional(args))

(* The end of the object's lifetime: ~Optional is defaulted, ~Storage      *)
(* calls reset() in the first specialisation and is defaulted in the       *)
(* second.                                                                 *)
Destroy ==
    /\ phase = "alive"
    /\ phase' = "destroyed"
    /\ Mutated("destroy", 0,
               IF T_trivial THEN m_storage ELSE Storage_reset(T_trivial, m_storage))

\* p.has_value()
HasValue ==
    /\ phase = "alive"
    /\ Asked("has_value", RetBool(has_value(m_storage)), << >>)
    /\ UNCHANGED <<phase, m_storage>>

\* bool(p), !p
OperatorBool ==
    /\ phase = "alive"
    /\ Asked("operator_bool", RetBool(has_value(m_storage)), << >>)
    /\ UNCHANGED <<phase, m_storage>>

\* p.get_value(), caught by the caller when it throws
GetValue ==
    /\ phase = "alive"
    /\ \E g \in get_value(m_storage) :
          Asked("get_value", IF g.threw THEN RetBadAccess ELSE RetValue(g.v), << >>)
    /\ UNCHANGED <<phase, m_storage>>

\* *p
Deref ==
    /\ phase = "alive"
    /\ \E x \in deref(m_storage) : Asked("deref", RetValue(x), << >>)
    /\ UNCHANGED <<phase, m_storage>>

\* p.and_then(f) on an lvalue
AndThenL(f) ==
    /\ phase = "alive"
    /\ \E a \in and_then(m_storage, f) :
          Asked("and_then", RetOptional(a.res), a.calls)
    /\ UNCHANGED <<phase, m_storage>>

\* std::move(p).and_then(f): f is handed the value as an rvalue
AndThenR(f) ==
    /\ phase = "alive"
    /\ \E a \in and_then(m_storage, f) :
       \E s \in (IF has_value(m_storage)
                 THEN MovedFrom(T_trivial, m_storage) ELSE {m_storage}) :
          AskedMoving("and_then_rvalue", RetOptional(a.res), a.calls, s)
    /\ UNCHANGED phase

\* p.and_then(f).and_then(g): the second call, on the temporary the first gave
AndThenChain(g) ==
    /\ phase = "alive"
    /\ query \in {"and_then", "and_then_rvalue"}
    /\ \E a \in and_then(ret.o, g) :
          Asked("and_then_chain", RetOptional(a.res), a.calls)
    /\ UNCHANGED <<phase, m_storage>>

\* p.or_else(f) on an lvalue; r is what f returns
OrElseC(r) ==
    /\ phase = "alive"
    /\ T_trivial
    /\ LET a == or_else_const(m_storage, r)
       IN  Asked("or_else", RetOptional(a.res), a.calls)
    /\ UNCHANGED <<phase, m_storage>>

\* std::move(p).or_else(f), f::Optional<T>(...).or_else(f)
OrElseR(r) ==
    /\ phase = "alive"
    /\ \E a \in or_else_rvalue(T_trivial, m_storage, r) :
          /\ Asked("or_else_rvalue", RetOptional(a.res), a.calls)
          /\ phase' = IF a.abort THEN "aborted" ELSE phase
    /\ UNCHANGED m_storage

\* p.get_value_or(d) on an lvalue
GetValueOrC(d) ==
    /\ phase = "alive"
    /\ \E x \in get_value_or(m_storage, d) :
          Asked("get_value_or", RetValue(x), << >>)
    /\ UNCHANGED <<phase, m_storage>>

\* std::move(p).get_value_or(d): the value is moved out
GetValueOrR(d) ==
    /\ phase = "alive"
    /\ \E x \in get_value_or(m_storage, d) :
       \E s \in (IF has_value(m_storage)
                 THEN MovedFrom(T_trivial, m_storage) ELSE {m_storage}) :
          AskedMoving("get_value_or_rvalue", RetValue(x), << >>, s)
    /\ UNCHANGED phase

OptionalNext ==
    \/ DefaultConstruct
    \/ NullvalueConstruct
    \/ \E arg \in Args : ValueConstruct(arg)
    \/ \E opt \in OptSources(T_trivial) : OptionalConstruct(opt)
    \/ \E args \in ArgPacks : MakeOptional(args)
    \/ \E v \in Val : AssignValue(v)
    \/ AssignNullvalue
    \/ Reset
    \/ \E rhs \in OptSources(T_trivial) : AssignOptionalCopy(rhs)
    \/ \E rhs \in OptSources(T_trivial) : AssignOptionalMove(rhs)
    \/ \E rhs \in OptSources(T_trivial) : AssignImplicit(rhs)
    \/ \E args \in ArgPacks : Emplace(args)
    \/ EmplaceThrows
    \/ AssignSelf
    \/ AssignSelfImplicit
    \/ Destroy
    \/ HasValue
    \/ OperatorBool
    \/ GetValue
    \/ Deref
    \/ \E f \in Fn : AndThenL(f)
    \/ \E f \in Fn : AndThenR(f)
    \/ \E g \in Fn : AndThenChain(g)
    \/ \E r \in FRes : OrElseC(r)
    \/ \E r \in FRes : OrElseR(r)
    \/ \E d \in Args : GetValueOrC(d)
    \/ \E d \in Args : GetValueOrR(d)

\* -------------------------------------------------------------------- OneOf

\* How many OneOf objects the program holds.
NumOneOf == 1

\* The values of the two alternatives: A as T above, B as U above.
AVal == Val
BVal == UVal

\* OneOf(value1_type&& a): m_is_value1(true), an A constructed in m_storage.
OneOf_from_value1(a) ==
    [m_is_value1 |-> TRUE, m_storage |-> [type |-> "A", v |-> a]]

\* OneOf(value2_type&& b): m_is_value1(false), a B constructed in m_storage.
OneOf_from_value2(b) ==
    [m_is_value1 |-> FALSE, m_storage |-> [type |-> "B", v |-> b]]

\* is_value1: return m_is_value1.
is_value1(o) == o.m_is_value1

\* is_value2: return !m_is_value1.
is_value2(o) == ~o.m_is_value1

\* reinterpret_cast of m_storage to one alternative: the object there, if of that type.
reinterpret(storage, type, values) ==
    IF storage.type = type THEN {storage.v} ELSE values

\* get_value1: if (!m_is_value1) throw; return the storage read as an A.
get_value1(o) ==
    IF ~o.m_is_value1 THEN {[threw |-> TRUE, type |-> "A", v |-> 0]}
    ELSE {[threw |-> FALSE, type |-> "A", v |-> x] :
             x \in reinterpret(o.m_storage, "A", AVal)}

\* get_value2 with get_value1's test.
get_value2_inverted(o) ==
    IF ~o.m_is_value1 THEN {[threw |-> TRUE, type |-> "B", v |-> 0]}
    ELSE {[threw |-> FALSE, type |-> "B", v |-> x] :
             x \in reinterpret(o.m_storage, "B", BVal)}

\* get_value2: if (m_is_value1) throw; return the storage read as a B.
get_value2(o) ==
    IF o.m_is_value1 THEN {[threw |-> TRUE, type |-> "B", v |-> 0]}
    ELSE {[threw |-> FALSE, type |-> "B", v |-> x] :
             x \in reinterpret(o.m_storage, "B", BVal)}

\* ~OneOf without the test of the discriminant: always ~value1_type.
OneOf_destructor_value1(o) == "A"

\* ~OneOf: the destructor of the alternative the discriminant selects.
OneOf_destructor(o) == IF o.m_is_value1 THEN "A" ELSE "B"

VARIABLES
    oneof       \* the OneOf objects: lifetime, members, last call and its result

uvars == <<oneof>>

OneOfIds == 1..NumOneOf

NoOneOf ==
    [phase |-> "none", m_is_value1 |-> FALSE,
     m_storage |-> [type |-> "none", v |-> 0],
     from |-> [type |-> "none", v |-> 0],
     call |-> "none", ret |-> [kind |-> "none", b |-> FALSE, v |-> 0],
     destructed |-> "none"]

OneOfInit == oneof = [i \in OneOfIds |-> NoOneOf]

OneOfRet(kind, b, v) == [kind |-> kind, b |-> b, v |-> v]

\* Payment p(a); with an argument of type A
ConstructValue1(i, a) ==
    /\ oneof[i].phase = "none"
    /\ LET o == OneOf_from_value1(a)
       IN  oneof' = [oneof EXCEPT ![i] =
                [NoOneOf EXCEPT !.phase = "alive",
                                !.m_is_value1 = o.m_is_value1,
                                !.m_storage = o.m_storage,
                                !.from = [type |-> "A", v |-> a]]]

\* Payment p(b); with an argument of type B
ConstructValue2(i, b) ==
    /\ oneof[i].phase = "none"
    /\ LET o == OneOf_from_value2(b)
       IN  oneof' = [oneof EXCEPT ![i] =
                [NoOneOf EXCEPT !.phase = "alive",
                                !.m_is_value1 = o.m_is_value1,
                                !.m_storage = o.m_storage,
                                !.from = [type |-> "B", v |-> b]]]

\* p.is_value1()
IsValue1(i) ==
    /\ oneof[i].phase = "alive"
    /\ oneof' = [oneof EXCEPT ![i].call = "is_value1",
                              ![i].ret = OneOfRet("bool", is_value1(oneof[i]), 0)]

\* p.is_value2()
IsValue2(i) ==
    /\ oneof[i].phase = "alive"
    /\ oneof' = [oneof EXCEPT ![i].call = "is_value2",
                              ![i].ret = OneOfRet("bool", is_value2(oneof[i]), 0)]

\* p.get_value1(), caught by the caller when it throws
GetValue1(i) ==
    /\ oneof[i].phase = "alive"
    /\ \E g \in get_value1(oneof[i]) :
          oneof' = [oneof EXCEPT ![i].call = "get_value1",
                                 ![i].ret = IF g.threw
                                            THEN OneOfRet("BadAccess", FALSE, 0)
                                            ELSE OneOfRet(g.type, FALSE, g.v)]

\* p.get_value2(), caught by the caller when it throws
GetValue2(i) ==
    /\ oneof[i].phase = "alive"
    /\ \E g \in get_value2(oneof[i]) :
          oneof' = [oneof EXCEPT ![i].call = "get_value2",
                                 ![i].ret = IF g.threw
                                            THEN OneOfRet("BadAccess", FALSE, 0)
                                            ELSE OneOfRet(g.type, FALSE, g.v)]

\* The end of p's lifetime.
DestroyOneOf(i) ==
    /\ oneof[i].phase = "alive"
    /\ oneof' = [oneof EXCEPT ![i].phase = "destroyed",
                              ![i].destructed = OneOf_destructor(oneof[i])]

OneOfNext ==
    \/ \E i \in OneOfIds, a \in AVal : ConstructValue1(i, a)
    \/ \E i \in OneOfIds, b \in BVal : ConstructValue2(i, b)
    \/ \E i \in OneOfIds : IsValue1(i)
    \/ \E i \in OneOfIds : IsValue2(i)
    \/ \E i \in OneOfIds : GetValue1(i)
    \/ \E i \in OneOfIds : GetValue2(i)
    \/ \E i \in OneOfIds : DestroyOneOf(i)

\* --------------------------------------------------------------------- Lazy

\* How many get() and dereference calls the program makes of one Lazy.
MaxGets == 3

\* What a call of the wrapped function gives: a value of T, or an exception.
LRes == {[threw |-> TRUE, v |-> 0]} \cup {[threw |-> FALSE, v |-> x] : x \in Val}

\* The wrapped functions of one argument the program uses: one that returns
\* its argument, one that returns the next value, and one that throws on 0.
LFn ==
    {[x \in Val |-> [threw |-> FALSE, v |-> x]],
     [x \in Val |-> [threw |-> FALSE, v |-> (x + 1) % (MaxVal + 1)]],
     [x \in Val |-> IF x = 0 THEN [threw |-> TRUE, v |-> 0]
                              ELSE [threw |-> FALSE, v |-> x]]}

\* The caller's callable and argument objects the constructor was given.
Env == [callable : LFn, callable_alive : BOOLEAN, arg : Val, arg_alive : BOOLEAN]

\* Lazy(F&& f, As&&... args): f([&]{ return std::invoke(f, args...); }),
\* evaluated(false).  The closure holds references to the caller's objects
\* and copies nothing; b is left uninitialized.
Lazy_from ==
    [evaluated |-> FALSE, b |-> [live |-> FALSE, value |-> 0]]

\* The closure's run, std::invoke(f, args...) through the captured
\* references: on the objects as they are now; through a dangling reference
\* whatever is found there, or the end of the process.
thunk(env) ==
    LET fs == IF env.callable_alive THEN {env.callable} ELSE LFn
        as == IF env.arg_alive THEN {env.arg} ELSE Val
    IN  {[abort |-> FALSE, args |-> <<a>>, res |-> g[a]] : g \in fs, a \in as}
        \cup (IF env.callable_alive /\ env.arg_alive
              THEN {}
              ELSE {[abort |-> TRUE, args |-> << >>, res |-> [threw |-> FALSE, v |-> 0]]})

\* get() that runs the closure on every call.
Lazy_get_uncached(l, env) ==
    {IF t.abort
     THEN [l |-> l, kind |-> "abort", v |-> 0, calls |-> << >>]
     ELSE IF t.res.threw
     THEN [l |-> l, kind |-> "throw", v |-> 0,
           calls |-> <<[args |-> t.args, res |-> t.res]>>]
     ELSE [l |-> [evaluated |-> TRUE,
                  b |-> [live |-> TRUE, value |-> t.res.v]],
           kind |-> "value", v |-> t.res.v,
           calls |-> <<[args |-> t.args, res |-> t.res]>>] : t \in thunk(env)}

\* get() that sets evaluated before it runs the closure.
Lazy_get_flag_first(l, env) ==
    IF l.evaluated
    THEN {[l |-> l, kind |-> "value", v |-> x, calls |-> << >>] :
             x \in (IF l.b.live THEN {l.b.value} ELSE Val)}
    ELSE {[g EXCEPT !.l.evaluated = TRUE] : g \in Lazy_get_uncached(l, env)}

\* get(): if (!evaluated) { new(&b) value_type(f()); evaluated = true; }
\* return the T in b.  An exception of f() leaves evaluated as it was.
Lazy_get(l, env) ==
    IF l.evaluated
    THEN {[l |-> l, kind |-> "value", v |-> x, calls |-> << >>] :
             x \in (IF l.b.live THEN {l.b.value} ELSE Val)}
    ELSE Lazy_get_uncached(l, env)

\* has_value(): return true.
Lazy_has_value(l) == TRUE

\* operator bool: return has_value().
Lazy_operator_bool(l) == Lazy_has_value(l)

\* has_evaluated(): return evaluated.
Lazy_has_evaluated(l) == l.evaluated

\* ~Lazy that destroys the buffer's T whatever the flag says.
Lazy_destructor_unconditional(l) ==
    [l |-> [l EXCEPT !.b = [live |-> FALSE, value |-> 0]], destroyed |-> 1]

\* ~Lazy: if (evaluated) get().~value_type();  How many T it destroyed.
Lazy_destructor(l) ==
    IF l.evaluated
    THEN [l |-> [l EXCEPT !.b = [live |-> FALSE, value |-> 0]], destroyed |-> 1]
    ELSE [l |-> l, destroyed |-> 0]

VARIABLES
    lphase,      \* the Lazy's lifetime: "none", "alive", "destroyed", "aborted"
    lazy,        \* its members evaluated and b
    env,         \* the caller's callable and argument, which the closure refers to
    lbound,      \* the argument's value when the Lazy was constructed
    lcall,       \* the last member function called
    lret,        \* what it gave the caller
    linvoked,    \* every run of the wrapped function: arguments and result
    lgets,       \* how many get() and dereference calls were made
    ldestroyed   \* how many cached values the destructor destroyed

lvars == <<lphase, lazy, env, lbound, lcall, lret, linvoked, lgets, ldestroyed>>

LRet(kind, b, v) == [kind |-> kind, b |-> b, v |-> v]

LazyInit ==
    /\ lphase = "none"
    /\ lazy = Lazy_from
    /\ env = [callable |-> [x \in Val |-> [threw |-> FALSE, v |-> 0]],
              callable_alive |-> FALSE, arg |-> 0, arg_alive |-> FALSE]
    /\ lbound = 0
    /\ lcall = "none"
    /\ lret = LRet("none", FALSE, 0)
    /\ linvoked = << >>
    /\ lgets = 0
    /\ ldestroyed = 0

\* f::Lazy<T> l(f, a); each of f and a is an object of the caller or a
\* temporary, which is gone when the declaration is complete.
LazyConstruct(f, a, ftemp, atemp) ==
    /\ lphase = "none"
    /\ lphase' = "alive"
    /\ lazy' = Lazy_from
    /\ env' = [callable |-> f, callable_alive |-> ~ftemp,
               arg |-> a, arg_alive |-> ~atemp]
    /\ lbound' = a
    /\ UNCHANGED <<lcall, lret, linvoked, lgets, ldestroyed>>

\* The caller assigns to the variable it passed as argument.
SetArg(v) ==
    /\ lphase = "alive"
    /\ env.arg_alive
    /\ env.arg # v
    /\ env' = [env EXCEPT !.arg = v]
    /\ UNCHANGED <<lphase, lazy, lbound, lcall, lret, linvoked, lgets, ldestroyed>>

\* The scope of the caller's argument variable ends before the Lazy's.
ArgScopeEnds ==
    /\ lphase = "alive"
    /\ env.arg_alive
    /\ env' = [env EXCEPT !.arg_alive = FALSE]
    /\ UNCHANGED <<lphase, lazy, lbound, lcall, lret, linvoked, lgets, ldestroyed>>

\* The scope of the caller's callable ends before the Lazy's.
CallableScopeEnds ==
    /\ lphase = "alive"
    /\ env.callable_alive
    /\ env' = [env EXCEPT !.callable_alive = FALSE]
    /\ UNCHANGED <<lphase, lazy, lbound, lcall, lret, linvoked, lgets, ldestroyed>>

\* A call of get() or of operator*, which returns get(); name says which.
LazyAccess(name) ==
    /\ lphase = "alive"
    /\ lgets < MaxGets
    /\ \E g \in Lazy_get(lazy, env) :
          /\ lphase' = IF g.kind = "abort" THEN "aborted" ELSE "alive"
          /\ lazy' = g.l
          /\ lcall' = name
          /\ lret' = LRet(g.kind, FALSE, g.v)
          /\ linvoked' = linvoked \o g.calls
          /\ lgets' = lgets + 1
    /\ UNCHANGED <<env, lbound, ldestroyed>>

\* l.get(), an exception caught by the caller
LazyGet == LazyAccess("get")

\* *l
LazyDeref == LazyAccess("deref")

\* A call of one of the const member functions, which gives b.
LazyQuery(name, b) ==
    /\ lphase = "alive"
    /\ lcall' = name
    /\ lret' = LRet("bool", b, 0)
    /\ UNCHANGED <<lphase, lazy, env, lbound, linvoked, lgets, ldestroyed>>

\* l.has_value()
LazyHasValue == LazyQuery("has_value", Lazy_has_value(lazy))

\* bool(l)
LazyOperatorBool == LazyQuery("operator_bool", Lazy_operator_bool(lazy))

\* l.has_evaluated()
LazyHasEvaluated == LazyQuery("has_evaluated", Lazy_has_evaluated(lazy))

\* The end of the Lazy's lifetime.
LazyDestroy ==
    /\ lphase = "alive"
    /\ lphase' = "destroyed"
    /\ LET d == Lazy_destructor(lazy)
       IN  /\ lazy' = d.l
           /\ ldestroyed' = ldestroyed + d.destroyed
    /\ UNCHANGED <<env, lbound, lcall, lret, linvoked, lgets>>

LazyNext ==
    \/ \E f \in LFn, a \in Val, ftemp \in BOOLEAN, atemp \in BOOLEAN :
          LazyConstruct(f, a, ftemp, atemp)
    \/ \E v \in Val : SetArg(v)
    \/ ArgScopeEnds
    \/ CallableScopeEnds
    \/ LazyGet
    \/ LazyDeref
    \/ LazyHasValue
    \/ LazyOperatorBool
    \/ LazyHasEvaluated
    \/ LazyDestroy

\* --------------------------------------------------------------------- fmap

\* How many optionals one call of fmap is given.
MaxOpts == 2

\* How many elements a collection holds.
MaxLen == 2

\* How many times the program materializes one view.
MaxMats == 2

\* std::optional<int>: disengaged, or engaged with a value.
StdOptional == {[has |-> FALSE, v |-> 0]} \cup {[has |-> TRUE, v |-> x] : x \in Val}

\* The argument lists of the callable given to fmap with optionals.
Tuples == UNION {[1..n -> Val] : n \in 0..MaxOpts}

\* The lists of optionals given to fmap.
OptLists == UNION {[1..n -> StdOptional] : n \in 0..MaxOpts}

\* The digits of t read as a number, as std::to_string(f) + std::to_string(b).
RECURSIVE strcat(_)
strcat(t) ==
    IF t = << >> THEN 0
    ELSE strcat(SubSeq(t, 1, Len(t) - 1)) * (MaxVal + 1) + t[Len(t)]

\* The callables given to fmap with optionals: the test's, and one that
\* returns how many arguments it got.
OFn == {[t \in Tuples |-> strcat(t)], [t \in Tuples |-> Len(t)]}

\* fmap with optionals that does not test them: a disengaged one read as 0.
fmap_optionals_unchecked(f, opts) ==
    LET args == [i \in 1..Len(opts) |-> opts[i].v]
    IN  [res |-> [has |-> TRUE, v |-> f[args]],
         calls |-> <<[args |-> args, res |-> f[args]]>>]

\* fmap(F&& f, TOpts&&... opts): if ((... && opts)) return
\* std::invoke(f, *opts...); return {};
fmap_optionals(f, opts) ==
    IF \A i \in 1..Len(opts) : opts[i].has
    THEN LET args == [i \in 1..Len(opts) |-> opts[i].v]
         IN  [res |-> [has |-> TRUE, v |-> f[args]],
              calls |-> <<[args |-> args, res |-> f[args]]>>]
    ELSE [res |-> [has |-> FALSE, v |-> 0], calls |-> << >>]

\* The collections of at most MaxLen elements.
Collections == UNION {[1..n -> Val] : n \in 0..MaxLen}

\* The callables given to fmap with a collection: the test's square, and
\* one that returns the next number.
CFn == {[x \in Val |-> x * x], [x \in Val |-> x + 1]}

\* fmap(F&& f, C const& in): LazyTransformation<C, F>(in, f), which keeps
\* the reference in and the callable; nothing is called.
fmap_collection(f) == [made |-> TRUE, f |-> f]

\* for_each that starts at the second element.
for_each_from_second(arr) == [i \in 1..(Len(arr) - 1) |-> arr[i + 1]]

\* for_each(f, arr): f called on each element from arr.begin() to arr.end().
\* The arguments of the calls, in the order made.
for_each(arr) == [i \in 1..Len(arr) |-> arr[i]]

\* get() that passes over the source from its last element to its first.
LazyTransformation_get_backwards(view, in) ==
    LET n == Len(in)
        visited == [i \in 1..n |-> in[n + 1 - i]]
    IN  [out |-> [i \in 1..n |-> view.f[visited[i]]],
         calls |-> [i \in 1..n |-> [args |-> <<visited[i]>>, res |-> view.f[visited[i]]]]]

\* LazyTransformation::get<B>(): B out; for_each over in of
\* out.push_back(f(e)); return out.
LazyTransformation_get(view, in) ==
    LET visited == for_each(in)
    IN  [out |-> [i \in 1..Len(visited) |-> view.f[visited[i]]],
         calls |-> [i \in 1..Len(visited) |->
                       [args |-> <<visited[i]>>, res |-> view.f[visited[i]]]]]

VARIABLES
    fmopt,       \* the last call of fmap with optionals: callable, optionals, result, calls
    source,      \* the caller's collection: its elements, and whether it still exists
    view,        \* the LazyTransformation: whether made, and its callable
    out,         \* the last materialization's output container
    minvoked,    \* the calls of the callable the last materialization made
    touched,     \* whether the source was written since fmap, and since the last get
    mats,        \* how many materializations of the view were made
    mphase       \* "run", or "aborted" after a read of a source that is gone

fvars == <<fmopt, source, view, out, minvoked, touched, mats, mphase>>

NoView == [made |-> FALSE, f |-> [x \in Val |-> 0]]

NoFmopt ==
    [called |-> FALSE, f |-> [t \in Tuples |-> 0], opts |-> << >>,
     ret |-> [has |-> FALSE, v |-> 0], invoked |-> << >>]

FmapInit ==
    /\ fmopt = NoFmopt
    /\ source = [elems |-> << >>, alive |-> FALSE]
    /\ view = NoView
    /\ out = << >>
    /\ minvoked = << >>
    /\ touched = [since_fmap |-> FALSE, since_get |-> FALSE]
    /\ mats = 0
    /\ mphase = "run"

\* auto r = f::fmap(f, o1, ..., on); in test_optionals, which main runs
\* before test_collections
FmapOptionals(f, opts) ==
    /\ mphase = "run"
    /\ ~source.alive
    /\ ~view.made
    /\ LET r == fmap_optionals(f, opts)
       IN  fmopt' = [called |-> TRUE, f |-> f, opts |-> opts,
                     ret |-> r.res, invoked |-> r.calls]
    /\ UNCHANGED <<source, view, out, minvoked, touched, mats, mphase>>

\* std::vector<int> ints {...}; in test_collections, when the locals of
\* test_optionals are gone
ConstructSource(c) ==
    /\ mphase = "run"
    /\ ~source.alive
    /\ ~view.made
    /\ source' = [elems |-> c, alive |-> TRUE]
    /\ fmopt' = NoFmopt
    /\ UNCHANGED <<view, out, minvoked, touched, mats, mphase>>

\* auto lazycubes = f::fmap(f, ints);
FmapCollection(f) ==
    /\ mphase = "run"
    /\ source.alive
    /\ ~view.made
    /\ view' = fmap_collection(f)
    /\ touched' = [since_fmap |-> FALSE, since_get |-> FALSE]
    /\ UNCHANGED <<fmopt, source, out, minvoked, mats, mphase>>

\* ints.push_back(v);
PushBack(v) ==
    /\ mphase = "run"
    /\ source.alive
    /\ Len(source.elems) < MaxLen
    /\ source' = [source EXCEPT !.elems = Append(@, v)]
    /\ touched' = [since_fmap |-> TRUE, since_get |-> TRUE]
    /\ UNCHANGED <<fmopt, view, out, minvoked, mats, mphase>>

\* ints[i] = v;
SetElement(i, v) ==
    /\ mphase = "run"
    /\ source.alive
    /\ i \in 1..Len(source.elems)
    /\ source.elems[i] # v
    /\ source' = [source EXCEPT !.elems[i] = v]
    /\ touched' = [since_fmap |-> TRUE, since_get |-> TRUE]
    /\ UNCHANGED <<fmopt, view, out, minvoked, mats, mphase>>

\* The scope of the source collection ends before the view's.
SourceScopeEnds ==
    /\ mphase = "run"
    /\ source.alive
    /\ view.made
    /\ source' = [source EXCEPT !.alive = FALSE]
    /\ UNCHANGED <<fmopt, view, out, minvoked, touched, mats, mphase>>

\* auto cubes = std::vector<int>(lazycubes); through operator B(), which
\* returns get<B>().  The reference to a source that is gone reads whatever
\* is found there, or ends the process.
Materialize ==
    /\ mphase = "run"
    /\ view.made
    /\ mats < MaxMats
    /\ \E in \in (IF source.alive THEN {source.elems} ELSE Collections),
          abort \in (IF source.alive THEN {FALSE} ELSE BOOLEAN) :
          IF abort
          THEN /\ mphase' = "aborted"
               /\ UNCHANGED <<out, minvoked, touched, mats>>
          ELSE LET g == LazyTransformation_get(view, in)
               IN  /\ out' = g.out
                   /\ minvoked' = g.calls
                   /\ touched' = [touched EXCEPT !.since_get = FALSE]
                   /\ mats' = mats + 1
                   /\ mphase' = mphase
    /\ UNCHANGED <<fmopt, source, view>>

FmapNext ==
    \/ \E f \in OFn, opts \in OptLists : FmapOptionals(f, opts)
    \/ \E c \in Collections : ConstructSource(c)
    \/ \E f \in CFn : FmapCollection(f)
    \/ \E v \in Val : PushBack(v)
    \/ \E i \in 1..MaxLen, v \in Val : SetElement(i, v)
    \/ SourceScopeEnds
    \/ Materialize

\* --------------------------------------------------------------------- fold

\* The values folded into: an int, or a std::vector<int>.
IntV(n) == [kind |-> "int", n |-> n, seq |-> << >>]
VecV(q) == [kind |-> "vec", n |-> 0, seq |-> q]

\* The callables the tests fold with: plus is a + b, back_pusher appends v
\* to its copy of arr and returns it; and front_pusher, which inserts v at
\* the front instead.
plus(a, b) == IntV(a.n + b)
back_pusher(arr, v) == VecV(Append(arr.seq, v))
front_pusher(arr, v) == VecV(<<v>> \o arr.seq)

FoldFn == {"plus", "back_pusher", "front_pusher"}

\* The call f(acc, e).
apply(f, acc, e) ==
    CASE f = "plus" -> plus(acc, e)
      [] f = "back_pusher" -> back_pusher(acc, e)
      [] f = "front_pusher" -> front_pusher(acc, e)

\* The seeds a callable can be given.
Seeds(f) ==
    IF f = "plus" THEN {IntV(n) : n \in Val} ELSE {VecV(q) : q \in Collections}

\* fold_iterator(f, init, begin, end): if (begin >= end) return init;
\* return fold_iterator(f, f(init, *begin), begin+1, end).  range is what
\* the iterators pass over, begin and end are positions in it.  The result
\* and the calls of f in the order made.
RECURSIVE fold_iterator(_, _, _, _, _)
fold_iterator(f, init, range, begin, end) ==
    IF begin >= end
    THEN [v |-> init, calls |-> << >>]
    ELSE LET r == apply(f, init, range[begin])
             rest == fold_iterator(f, r, range, begin + 1, end)
         IN  [v |-> rest.v,
              calls |-> <<[args |-> <<init, range[begin]>>, res |-> r]>> \o rest.calls]

\* foldl whose recursion starts at arr.begin() again.
foldl_first_twice(f, init, arr) ==
    IF 1 >= Len(arr) + 1
    THEN [v |-> init, calls |-> << >>]
    ELSE LET r == apply(f, init, arr[1])
             rest == fold_iterator(f, r, arr, 1, Len(arr) + 1)
         IN  [v |-> rest.v,
              calls |-> <<[args |-> <<init, arr[1]>>, res |-> r]>> \o rest.calls]

\* foldl(f, init, arr): if (arr.begin() >= arr.end()) return init; return
\* fold_iterator(f, f(init, *arr.begin()), arr.begin()+1, arr.end()).
foldl(f, init, arr) ==
    IF 1 >= Len(arr) + 1
    THEN [v |-> init, calls |-> << >>]
    ELSE LET r == apply(f, init, arr[1])
             rest == fold_iterator(f, r, arr, 2, Len(arr) + 1)
         IN  [v |-> rest.v,
              calls |-> <<[args |-> <<init, arr[1]>>, res |-> r]>> \o rest.calls]

\* Reverse iterators that pass over arr from its first element on.
reverse_iterator_forward(arr) == arr

\* What the reverse iterators from arr.rbegin() to arr.rend() pass over.
reverse_iterator(arr) == [i \in 1..Len(arr) |-> arr[Len(arr) + 1 - i]]

\* foldr that passes over arr with the forward iterators.
foldr_forward(f, init, arr) ==
    IF 1 >= Len(arr) + 1
    THEN [v |-> init, calls |-> << >>]
    ELSE LET r == apply(f, init, arr[1])
             rest == fold_iterator(f, r, arr, 2, Len(arr) + 1)
         IN  [v |-> rest.v,
              calls |-> <<[args |-> <<init, arr[1]>>, res |-> r]>> \o rest.calls]

\* foldr(f, init, arr): if (rbegin(arr) >= rend(arr)) return init; return
\* fold_iterator(f, f(init, *arr.rbegin()), arr.rbegin()+1, arr.rend()).
foldr(f, init, arr) ==
    LET range == reverse_iterator(arr)
    IN  IF 1 >= Len(range) + 1
        THEN [v |-> init, calls |-> << >>]
        ELSE LET r == apply(f, init, range[1])
                 rest == fold_iterator(f, r, range, 2, Len(range) + 1)
             IN  [v |-> rest.v,
                  calls |-> <<[args |-> <<init, range[1]>>, res |-> r]>> \o rest.calls]

VARIABLES
    fold         \* a test's callable, seed and collection, its last fold and the result

dvars == <<fold>>

FoldInit ==
    fold = [set |-> FALSE, f |-> "plus", init |-> IntV(0), c |-> << >>,
            call |-> "none", ret |-> IntV(0), invoked |-> << >>]

\* The locals of a test: its callable, seed and collection.
FoldTest(f, init, c) ==
    /\ ~fold.set
    /\ fold' = [fold EXCEPT !.set = TRUE, !.f = f, !.init = init, !.c = c]

\* What a fold's call leaves: its name, result and calls of f.
Folded(name, r) ==
    /\ fold.set
    /\ fold' = [fold EXCEPT !.call = name, !.ret = r.v, !.invoked = r.calls]

\* f::fold_iterator(f, init, c.begin(), c.end())
FoldIterator ==
    Folded("fold_iterator", fold_iterator(fold.f, fold.init, fold.c, 1, Len(fold.c) + 1))

\* f::foldl(f, init, c)
Foldl == Folded("foldl", foldl(fold.f, fold.init, fold.c))

\* f::foldr(f, init, c)
Foldr == Folded("foldr", foldr(fold.f, fold.init, fold.c))

FoldNext ==
    \/ \E f \in FoldFn, c \in Collections : \E init \in Seeds(f) : FoldTest(f, init, c)
    \/ FoldIterator
    \/ Foldl
    \/ Foldr

\* ------------------------------------------------------------ compose, curry

\* How many finished applications of curried callables the test makes.
MaxApply == 2

\* The unary functions the test composes: the successor within Val, and the
\* constant 0.  They do not commute.
CompFn == {[x \in Val |-> (x + 1) % (MaxVal + 1)], [x \in Val |-> 0]}

\* The packs f, fs... given to compose.
CompPacks == [1..2 -> CompFn] \cup [1..3 -> CompFn]

\* What the build makes of an expression: a value, or no program at all.
Value(v) == [kind |-> "value", v |-> v]
IllFormed == [kind |-> "ill_formed", v |-> 0]

\* std::forward(f) as compose writes it, with no template argument: the
\* parameter of std::forward is a non-deduced context, so no call matches.
std_forward(f) == IllFormed

\* compose(f, fs...)(x): the closure captures std::forward(f) and
\* std::forward(fs)..., and its body is compose(fs...)(invoke(f, x)), f
\* being the first function of the pack; no compose takes an empty pack.
RECURSIVE compose(_, _)
compose(fs, x) ==
    IF fs = << >>
    THEN IllFormed
    ELSE IF std_forward(Head(fs)) = IllFormed \/ x = IllFormed
         THEN IllFormed
         ELSE compose(Tail(fs), Value(Head(fs)[x.v]))

\* The functions the test curries: add3(a, b, c), and the mul_times(n, v) of
\* the comment on curry, v multiplied n times.
CurryFn == {"add3", "mul_times"}

RECURSIVE mul_times(_, _)
mul_times(n, v) == IF n = 0 THEN 1 ELSE v * mul_times(n - 1, v)

add3(a, b, c) == a + b + c

\* A callable is a function by name, or the closure [x, f] curry makes of a
\* value and a callable.
Function(name) == [kind |-> "function", name |-> name]
Closure(x, f) == [kind |-> "closure", x |-> x, f |-> f]

\* How many arguments a call of the callable takes: the closure's call is
\* f(x, xs...), so it takes one fewer than f.
RECURSIVE parameters(_)
parameters(c) ==
    IF c.kind = "function"
    THEN (IF c.name = "add3" THEN 3 ELSE 2)
    ELSE parameters(c.f) - 1

\* The call c(xs...): a closure returns f(x, xs...).  The result, and the
\* call of the function that it ends in.
RECURSIVE invoke(_, _)
invoke(c, xs) ==
    IF c.kind = "closure"
    THEN invoke(c.f, <<c.x>> \o xs)
    ELSE LET r == IF c.name = "add3"
                  THEN add3(xs[1], xs[2], xs[3])
                  ELSE mul_times(xs[1], xs[2])
         IN  [v |-> r, calls |-> <<[name |-> c.name, args |-> xs, res |-> r]>>]

\* detail::needs_unapply: true unless the callable can be called with no
\* argument.
needs_unapply(c) == parameters(c) # 0

\* curry(f): with needs_unapply a callable of one argument that holds f,
\* else the result of f().
curry(f) ==
    IF needs_unapply(f)
    THEN [kind |-> "curried", f |-> f, v |-> 0, calls |-> << >>]
    ELSE LET r == invoke(f, << >>)
         IN  [kind |-> "value", f |-> f, v |-> r.v, calls |-> r.calls]

\* A curried callable whose closure hands x to f as the last argument.
curried_call_last(g, x) ==
    LET RECURSIVE bind_last(_)
        bind_last(c) == IF c.kind = "function"
                        THEN Closure(x, c)
                        ELSE Closure(c.x, bind_last(c.f))
    IN  curry(bind_last(g.f))

\* The call g(x) of what curry returned: curry of the closure [x, f].
curried_call(g, x) == curry(Closure(x, g.f))

\* The test's state: the composition it asked for and what it got, and the
\* curried callable it holds, the arguments that callable was given one by
\* one, the finished applications and the calls of the curried function.
VARIABLES composed, curried, applied, results, cinvoked

cvars == <<composed, curried, applied, results, cinvoked>>

NoComposed == [set |-> FALSE, fs |-> << >>, x |-> 0, ret |-> IllFormed]
NoCurried == [kind |-> "none", f |-> Function("add3"), v |-> 0, calls |-> << >>]

CombinatorsInit ==
    /\ composed = NoComposed
    /\ curried = NoCurried
    /\ applied = << >>
    /\ results = << >>
    /\ cinvoked = << >>

\* auto r = f::compose(f, fs...)(x);
Compose(fs, x) ==
    /\ curried.kind = "none"
    /\ composed' = [set |-> TRUE, fs |-> fs, x |-> x, ret |-> compose(fs, Value(x))]
    /\ UNCHANGED <<curried, applied, results, cinvoked>>

\* auto g = f::curry(f);
Curry(name) ==
    /\ curried.kind = "none"
    /\ curried' = curry(Function(name))
    /\ applied' = << >>
    /\ results' = << >>
    /\ cinvoked' = cinvoked \o curried'.calls
    /\ UNCHANGED composed

\* auto h = g(x); when h is a callable again the test goes on with it, when
\* it is the result the test notes it and keeps g for another call.
CurriedCall(x) ==
    /\ curried.kind = "curried"
    /\ Len(results) < MaxApply
    /\ LET h == curried_call(curried, x)
       IN  /\ cinvoked' = cinvoked \o h.calls
           /\ IF h.kind = "curried"
              THEN /\ curried' = h
                   /\ applied' = Append(applied, x)
                   /\ UNCHANGED results
              ELSE /\ results' = Append(results, [x |-> x, v |-> h.v])
                   /\ UNCHANGED <<curried, applied>>
    /\ UNCHANGED composed

CombinatorsNext ==
    \/ \E fs \in CompPacks, x \in Val : Compose(fs, x)
    \/ \E name \in CurryFn : Curry(name)
    \/ \E x \in Val : CurriedCall(x)

\* --------------------------------------------------- Lazy, concurrent get()

\* How many threads call get() on the one Lazy, once each.
NumThreads == 2

Threads == 1..NumThreads

\* get(), statement by statement.  if (!evaluated): the body is entered.
Lazy_get_check_buffer(l) == ~l.evaluated /\ ~l.b.live

Lazy_get_check(l) == ~l.evaluated

(* new(&b) value_type(f()): f() runs and its result is constructed in b;   *)
(* while that goes on the bytes of b hold no T.                            *)
Lazy_get_new_begin(l) == [l EXCEPT !.b = [live |-> FALSE, value |-> 0]]
Lazy_get_new_end(l, v) == [l EXCEPT !.b = [live |-> TRUE, value |-> v]]

\* evaluated = true;
Lazy_get_set(l) == [l EXCEPT !.evaluated = TRUE]

\* return *reinterpret_cast<value_type*>(&b): the T in b, or anything.
Lazy_get_return(l) == IF l.b.live THEN {l.b.value} ELSE Val

VARIABLES
    rlazy,       \* the members evaluated and b of the Lazy the threads share
    rthread,     \* each thread's place in get(), and what get() gave it
    rinvoked,    \* the runs of the wrapped function: thread and result
    rbuilt       \* how many times a T was constructed in b

rvars == <<rlazy, rthread, rinvoked, rbuilt>>

Thread(pc, entered, v) == [pc |-> pc, entered |-> entered, v |-> v]

RaceInit ==
    /\ rlazy = Lazy_from
    /\ rthread = [t \in Threads |-> Thread("call", FALSE, 0)]
    /\ rinvoked = << >>
    /\ rbuilt = 0

\* Thread t calls get() and evaluates the condition of the if.
RaceCheck(t) ==
    /\ rthread[t].pc = "call"
    /\ rthread' = [rthread EXCEPT ![t] =
                      IF Lazy_get_check(rlazy)
                      THEN Thread("in_if", TRUE, 0)
                      ELSE Thread("return", FALSE, 0)]
    /\ UNCHANGED <<rlazy, rinvoked, rbuilt>>

\* Thread t runs the wrapped function, whose result v is being built in b.
RaceRun(t, v) ==
    /\ rthread[t].pc = "in_if"
    /\ rlazy' = Lazy_get_new_begin(rlazy)
    /\ rinvoked' = Append(rinvoked, [thread |-> t, v |-> v])
    /\ rthread' = [rthread EXCEPT ![t] = Thread("new", TRUE, v)]
    /\ UNCHANGED rbuilt

\* The placement new of thread t completes.
RaceConstruct(t) ==
    /\ rthread[t].pc = "new"
    /\ rlazy' = Lazy_get_new_end(rlazy, rthread[t].v)
    /\ rbuilt' = rbuilt + 1
    /\ rthread' = [rthread EXCEPT ![t] = Thread("set", TRUE, 0)]
    /\ UNCHANGED rinvoked

\* Thread t sets the flag.
RaceSet(t) ==
    /\ rthread[t].pc = "set"
    /\ rlazy' = Lazy_get_set(rlazy)
    /\ rthread' = [rthread EXCEPT ![t] = Thread("return", TRUE, 0)]
    /\ UNCHANGED <<rinvoked, rbuilt>>

\* Thread t returns what it reads in b.
RaceReturn(t) ==
    /\ rthread[t].pc = "return"
    /\ \E v \in Lazy_get_return(rlazy) :
          rthread' = [rthread EXCEPT ![t] = Thread("done", rthread[t].entered, v)]
    /\ UNCHANGED <<rlazy, rinvoked, rbuilt>>

RaceNext ==
    \/ \E t \in Threads : RaceCheck(t)
    \/ \E t \in Threads, v \in Val : RaceRun(t, v)
    \/ \E t \in Threads : RaceConstruct(t)
    \/ \E t \in Threads : RaceSet(t)
    \/ \E t \in Threads : RaceReturn(t)

\* ----------------------------------------------------------- specifications

vars == <<ovars, uvars, lvars, fvars, dvars, cvars, rvars>>

Init ==
    /\ OptionalInit /\ OneOfInit /\ LazyInit /\ FmapInit /\ FoldInit
    /\ CombinatorsInit /\ RaceInit

\* The program operating on one Optional.
SpecOptional ==
    Init /\ [][OptionalNext /\ UNCHANGED <<uvars, lvars, fvars, dvars, cvars, rvars>>]_vars

\* The program operating on its OneOf objects.
SpecOneOf ==
    Init /\ [][OneOfNext /\ UNCHANGED <<ovars, lvars, fvars, dvars, cvars, rvars>>]_vars

\* The program operating on one Lazy.
SpecLazy ==
    Init /\ [][LazyNext /\ UNCHANGED <<ovars, uvars, fvars, dvars, cvars, rvars>>]_vars

\* The program calling fmap, and materializing the view of a collection.
SpecFmap ==
    Init /\ [][FmapNext /\ UNCHANGED <<ovars, uvars, lvars, dvars, cvars, rvars>>]_vars

\* The program folding a collection.
SpecFold ==
    Init /\ [][FoldNext /\ UNCHANGED <<ovars, uvars, lvars, fvars, cvars, rvars>>]_vars

\* The program composing and currying functions.
SpecCombinators ==
    Init /\ [][CombinatorsNext /\ UNCHANGED <<ovars, uvars, lvars, fvars, dvars, rvars>>]_vars

\* Threads calling get() on one Lazy, their steps interleaved.
SpecLazyRace ==
    Init /\ [][RaceNext /\ UNCHANGED <<ovars, uvars, lvars, fvars, dvars, cvars>>]_vars

\* ------------------------------------------------------------------ claims

\* What a T written from the argument arg holds, a U truncated to T.
Converted(arg) == IF arg.type = "T" THEN arg.v ELSE arg.v \div 2

(* C1: an Optional constructed from a value v of T is engaged: has_value() *)
(* and the bool conversion give true, and the unchecked dereference and    *)
(* get_value() both give v (a U given instead is converted to T), for as   *)
(* long as nothing else is done to the object.                             *)
C1_ValueConstructedIsEngaged ==
    (phase = "alive" /\ op.name \in {"Optional_from", "Optional_from_U"}) =>
        /\ m_storage.has_value
        /\ query \in {"has_value", "operator_bool"} => ret = RetBool(TRUE)
        /\ query \in {"deref", "get_value"} =>
              ret = RetValue(IF op.name = "Optional_from" THEN op.v ELSE op.v \div 2)

C1_Witness ==
    /\ phase = "alive"
    /\ op = Op("Optional_from", MaxVal)
    /\ query = "get_value"
    /\ ret = RetValue(MaxVal)

(* C2: an Optional constructed with no argument or from nullvalue is       *)
(* disengaged, and get_value() on a disengaged Optional signals BadAccess, *)
(* gives the caller no value and leaves the Optional disengaged.           *)
C2_EmptyConstructedAndBadAccess ==
    [][ /\ (phase' = "alive" /\ op'.name \in {"Optional_void", "Optional_nullvalue"})
              => ~m_storage'.has_value
        /\ (GetValue /\ ~m_storage.has_value)
              => (ret' = RetBadAccess /\ ~m_storage'.has_value) ]_vars

C2_Witness ==
    /\ phase = "alive"
    /\ op.name = "Optional_nullvalue"
    /\ query = "get_value"
    /\ ret.kind = "BadAccess"

(* C3: after any sequence of value assignments, nullvalue assignments and  *)
(* reset() calls the Optional is engaged exactly when the last of them was *)
(* a value assignment, and then holds the value last assigned.             *)
C3_LastAssignmentDecides ==
    /\ op.name = "assign_value" =>
          (m_storage.has_value /\ ReadValue(m_storage) = {op.v})
    /\ op.name \in {"assign_nullvalue", "reset"} => ~m_storage.has_value

C5_ConstructFromOptional ==
    [][ \A opt \in OptSources(T_trivial) :
          OptionalConstruct(opt)
             => /\ ret'.kind # "BadAccess"
                /\ phase' = "alive"
                /\ m_storage'.has_value = opt.has_value
                /\ opt.has_value => ReadValue(m_storage') = {opt.value} ]_vars

AndThenPost(s, r, calls) ==
    /\ r.kind = "optional"
    /\ IF s.has_value
       THEN /\ Len(calls) = 1
            /\ calls[1].args = <<s.value>>
            /\ r.o.has_value = calls[1].res.has
            /\ calls[1].res.has => ReadValue(r.o) = {calls[1].res.v}
       ELSE /\ calls = << >>
            /\ ~r.o.has_value

C8_OrElse ==
    [][ \A r \in FRes :
          (OrElseC(r) \/ OrElseR(r))
             => IF m_storage.has_value
                THEN /\ invoked' = << >>
                     /\ ret'.kind = "optional"
                     /\ ret'.o.has_value
                     /\ ReadValue(ret'.o) = {m_storage.value}
                ELSE /\ invoked' = <<[args |-> << >>, res |-> r]>>
                     /\ ret'.kind = "optional"
                     /\ ret'.o.has_value = r.has
                     /\ r.has => ReadValue(ret'.o) = {r.v} ]_vars

(* C9: get_value_or(d) returns the contained value of an engaged Optional  *)
(* and d converted to T for a disengaged one; it signals nothing, and on   *)
(* an lvalue it leaves the Optional as it was.                             *)
C9_GetValueOr ==
    [][ \A d \in Args :
          (GetValueOrC(d) \/ GetValueOrR(d))
             => /\ ret' = RetValue(IF m_storage.has_value
                                   THEN m_storage.value ELSE Converted(d))
                /\ phase' = phase
                /\ m_storage'.has_value = m_storage.has_value
                /\ GetValueOrC(d) => m_storage' = m_storage ]_vars

C9_Witness ==
    /\ phase = "alive"
    /\ query = "get_value_or"
    /\ ~m_storage.has_value
    /\ ret = RetValue(MaxVal)

(* C10: a OneOf constructed from a value a of A reports is_value1() true   *)
(* and is_value2() false, get_value1() returns a and get_value2() signals  *)
(* BadAccess; constructed from b of B it is the other way round.           *)
C10_OneOfAlternative ==
    \A i \in OneOfIds :
       LET o == oneof[i] IN
       /\ (o.phase = "alive" /\ o.from.type = "A") =>
             /\ o.call = "is_value1" => o.ret = OneOfRet("bool", TRUE, 0)
             /\ o.call = "is_value2" => o.ret = OneOfRet("bool", FALSE, 0)
             /\ o.call = "get_value1" => o.ret = OneOfRet("A", FALSE, o.from.v)
             /\ o.call = "get_value2" => o.ret = OneOfRet("BadAccess", FALSE, 0)
       /\ (o.phase = "alive" /\ o.from.type = "B") =>
             /\ o.call = "is_value1" => o.ret = OneOfRet("bool", FALSE, 0)
             /\ o.call = "is_value2" => o.ret = OneOfRet("bool", TRUE, 0)
             /\ o.call = "get_value2" => o.ret = OneOfRet("B", FALSE, o.from.v)
             /\ o.call = "get_value1" => o.ret = OneOfRet("BadAccess", FALSE, 0)

C10_Witness ==
    \E i \in OneOfIds :
       /\ oneof[i].phase = "alive"
       /\ oneof[i].from = [type |-> "B", v |-> MaxVal]
       /\ oneof[i].call = "get_value1"
       /\ oneof[i].ret.kind = "BadAccess"

(* C11: of a live OneOf exactly one of is_value1() and is_value2() is      *)
(* true; no query and no access, one that signals BadAccess included,      *)
(* changes the discriminant or what the storage holds; and the destructor  *)
(* run at the end of its life is the one of the alternative it holds.      *)
C11_OneOfFixedAlternative ==
    [][ \A i \in OneOfIds :
          LET o == oneof[i]
              n == oneof'[i]
          IN  /\ n.phase = "alive" =>
                    /\ is_value1(n) # is_value2(n)
                    /\ is_value1(n) = (n.m_storage.type = "A")
              /\ (o.phase = "alive" /\ n.phase = "alive") =>
                    /\ n.m_is_value1 = o.m_is_value1
                    /\ n.m_storage = o.m_storage
              /\ (o.phase = "alive" /\ n.phase = "destroyed") =>
                    /\ n.destructed = o.m_storage.type
                    /\ n.m_is_value1 = o.m_is_value1
                    /\ n.m_storage = o.m_storage
              /\ o.phase = "destroyed" => n = o ]_vars

C11_Witness ==
    \E i \in OneOfIds :
       /\ oneof[i].phase = "destroyed"
       /\ oneof[i].call = "get_value1"
       /\ oneof[i].ret.kind = "BadAccess"
       /\ oneof[i].m_storage = [type |-> "B", v |-> MaxVal]
       /\ oneof[i].destructed = "B"

(* C12: has_evaluated() is false from a Lazy's construction to its first   *)
(* get() or dereference and true ever after, and however many get() calls  *)
(* are made the wrapped function is invoked once, by the first of them.    *)
C12_EvaluatedOnce ==
    lphase \in {"alive", "destroyed"} =>
        /\ lgets = 0 => (~Lazy_has_evaluated(lazy) /\ linvoked = << >>)
        /\ lgets >= 1 => (Lazy_has_evaluated(lazy) /\ Len(linvoked) = 1)

(* C13: the value the first get() of a Lazy gives is the wrapped function  *)
(* applied to the argument as it was when the Lazy was constructed,        *)
(* whatever the caller did to its argument variable since.                 *)
C13_CapturedAtConstruction ==
    (lcall \in {"get", "deref"} /\ lret.kind = "value") =>
        env.callable[lbound] = [threw |-> FALSE, v |-> lret.v]

(* C14: every get() and dereference of a Lazy that returns gives the value *)
(* cached in b, which is what the single completed run of the wrapped      *)
(* function returned: the first such call runs the function and stores the *)
(* result, every later one runs nothing and leaves b alone, also when the  *)
(* function would now return something else.                               *)
C14_CachedValue ==
    [][ /\ (lgets' = lgets + 1 /\ lret'.kind = "value") =>
              IF lazy.evaluated
              THEN /\ lret'.v = lazy.b.value
                   /\ lazy' = lazy
                   /\ linvoked' = linvoked
              ELSE /\ Len(linvoked') = Len(linvoked) + 1
                   /\ linvoked'[Len(linvoked')].res = [threw |-> FALSE, v |-> lret'.v]
                   /\ lazy' = [evaluated |-> TRUE,
                               b |-> [live |-> TRUE, value |-> lret'.v]]
        /\ (lphase' = "alive" /\ lazy'.evaluated) =>
              /\ linvoked' # << >>
              /\ linvoked'[Len(linvoked')].res = [threw |-> FALSE, v |-> lazy'.b.value]
              /\ lazy.evaluated => lazy' = lazy ]_vars

C14_Witness ==
    /\ lphase = "alive"
    /\ lcall = "deref"
    /\ lgets = MaxGets
    /\ lret = LRet("value", FALSE, 0)
    /\ Len(linvoked) = 1
    /\ env.callable_alive
    /\ env.arg_alive
    /\ env.callable[env.arg] = [threw |-> FALSE, v |-> MaxVal]

(* C15: no operation of a Lazy but get() and the dereference runs the      *)
(* wrapped function or changes the evaluated flag: not the construction,   *)
(* which leaves it unevaluated, not has_value() and the bool conversion,   *)
(* which give true in both states, not has_evaluated(), not the            *)
(* destructor, which destroys no value of a Lazy never evaluated and the   *)
(* cached value, once, of an evaluated one.                                *)
C15_OnlyGetEvaluates ==
    [][ /\ lgets' = lgets =>
              /\ linvoked' = linvoked
              /\ lazy'.evaluated = lazy.evaluated
        /\ (lphase = "none" /\ lphase' = "alive") =>
              /\ ~lazy'.evaluated
              /\ ~lazy'.b.live
              /\ linvoked' = << >>
        /\ (lgets' = lgets /\ lcall' \in {"has_value", "operator_bool"}) =>
              lret' = LRet("bool", TRUE, 0)
        /\ (lgets' = lgets /\ lcall' = "has_evaluated") =>
              lret' = LRet("bool", lazy.evaluated, 0)
        /\ (lphase = "alive" /\ lphase' = "destroyed") =>
              /\ lazy.b.live = lazy.evaluated
              /\ ldestroyed = 0
              /\ ldestroyed' = IF lazy.evaluated THEN 1 ELSE 0
              /\ ~lazy'.b.live
        /\ lphase = "destroyed" => UNCHANGED lvars ]_vars

C15_Witness ==
    /\ lphase = "destroyed"
    /\ lazy.evaluated
    /\ ldestroyed = 1
    /\ lcall = "has_value"
    /\ lret = LRet("bool", TRUE, 0)
    /\ Len(linvoked) = 1

\* What f gives for each element of c, in c's order.
Mapped(f, c) == [i \in 1..Len(c) |-> f[c[i]]]

C17_FmapCollection ==
    [][ /\ (~view.made /\ view'.made) =>
              /\ minvoked' = << >>
              /\ out' = << >>
              /\ mats' = 0
        /\ (mats' = mats + 1 /\ source.alive) =>
              /\ Len(out') = Len(source.elems)
              /\ Len(minvoked') = Len(source.elems)
              /\ \A i \in 1..Len(source.elems) :
                    /\ minvoked'[i].args = <<source.elems[i]>>
                    /\ out'[i] = view.f[source.elems[i]]
                    /\ out'[i] = minvoked'[i].res ]_vars

C17_Witness ==
    /\ view.made
    /\ source = [elems |-> <<0, MaxVal>>, alive |-> TRUE]
    /\ ~touched.since_fmap
    /\ mats = 1
    /\ out = <<1, MaxVal + 1>>

(* C18: the view refers to the source and keeps no result: a               *)
(* materialization of the view of a source that still exists gives f of    *)
(* the elements the source holds then, also when they were written after   *)
(* fmap was called, and leaves the source and the view as they were; a     *)
(* further materialization with the source not written in between calls f  *)
(* on every element again and gives an equal output.                       *)
C18_ViewByReference ==
    [][ (mats' = mats + 1 /\ source.alive) =>
           /\ out' = Mapped(view.f, source.elems)
           /\ source' = source
           /\ view' = view
           /\ Len(minvoked') = Len(source.elems)
           /\ (mats >= 1 /\ ~touched.since_get) =>
                 /\ out' = out
                 /\ minvoked' = minvoked ]_vars

C18_Witness ==
    /\ view.made
    /\ source.alive
    /\ Len(source.elems) = MaxLen
    /\ touched.since_fmap
    /\ ~touched.since_get
    /\ mats = MaxMats
    /\ out = Mapped(view.f, source.elems)
    /\ Len(minvoked) = MaxLen

\* The sum of the elements of c.
RECURSIVE Sum(_)
Sum(c) == IF c = << >> THEN 0 ELSE c[1] + Sum(Tail(c))

\* c from its last element to its first.
Reverse(c) == [i \in 1..Len(c) |-> c[Len(c) + 1 - i]]

(* C19: foldl(f, init, c), and fold_iterator over c from begin to end,     *)
(* call f once per element of c, from the first to the last, each time on  *)
(* the value accumulated so far (init for the first) and the element, and  *)
(* return the last call's result, or init without a call for an empty c.   *)
(* With + and seed 0 the result is the sum of c; with an append-to-back    *)
(* function and seed l it is l followed by c.                              *)
C19_Foldl ==
    fold.call \in {"foldl", "fold_iterator"} =>
        LET n == Len(fold.c) IN
        /\ Len(fold.invoked) = n
        /\ \A i \in 1..n :
              /\ fold.invoked[i].args =
                    <<IF i = 1 THEN fold.init ELSE fold.invoked[i - 1].res, fold.c[i]>>
              /\ fold.invoked[i].res =
                    apply(fold.f, fold.invoked[i].args[1], fold.invoked[i].args[2])
        /\ fold.ret = IF n = 0 THEN fold.init ELSE fold.invoked[n].res
        /\ fold.f = "plus" => fold.ret = IntV(fold.init.n + Sum(fold.c))
        /\ fold.f = "back_pusher" => fold.ret = VecV(fold.init.seq \o fold.c)

C19_Witness ==
    /\ fold.call = "foldl"
    /\ fold.f = "back_pusher"
    /\ fold.init = VecV(<<MaxVal>>)
    /\ fold.c = <<0, MaxVal>>
    /\ fold.ret = VecV(<<MaxVal, 0, MaxVal>>)
    /\ Len(fold.invoked) = 2

(* C20: foldr(f, init, c) returns what foldl(f, init, reverse(c)) returns, *)
(* by the same calls f(accumulated, element) made on the elements of c     *)
(* from the last to the first, and init for an empty c.  With an           *)
(* append-to-back function and an empty seed the result is c reversed;     *)
(* with + the result is that of foldl on c itself.                         *)
C20_Foldr ==
    fold.call = "foldr" =>
        LET l == foldl(fold.f, fold.init, Reverse(fold.c)) IN
        /\ fold.ret = l.v
        /\ fold.invoked = l.calls
        /\ \A i \in 1..Len(fold.c) :
              fold.invoked[i].args[2] = fold.c[Len(fold.c) + 1 - i]
        /\ fold.c = << >> => fold.ret = fold.init
        /\ (fold.f = "back_pusher" /\ fold.init = VecV(<< >>))
              => fold.ret = VecV(Reverse(fold.c))
        /\ fold.f = "plus" => fold.ret = foldl(fold.f, fold.init, fold.c).v

C20_Witness ==
    /\ fold.call = "foldr"
    /\ fold.f = "back_pusher"
    /\ fold.init = VecV(<< >>)
    /\ fold.c = <<0, MaxVal>>
    /\ fold.ret = VecV(<<MaxVal, 0>>)

(* C21, as claimed: foldr with an append-to-front function and an empty    *)
(* seed gives the collection reversed.                                     *)
C21_FoldrFrontReversed ==
    (fold.call = "foldr" /\ fold.f = "front_pusher" /\ fold.init = VecV(<< >>))
        => fold.ret = VecV(Reverse(fold.c))

(* C21, amended: foldr with an append-to-front function and an empty seed  *)
(* gives the collection in its own order, the last element being put in    *)
(* first and every earlier one in front of it.                             *)
C21_FoldrFrontSameOrder ==
    (fold.call = "foldr" /\ fold.f = "front_pusher" /\ fold.init = VecV(<< >>))
        => /\ fold.ret = VecV(fold.c)
           /\ Len(fold.invoked) = Len(fold.c)
           /\ \A i \in 1..Len(fold.c) :
                 fold.invoked[i].args[2] = fold.c[Len(fold.c) + 1 - i]

C21_Witness ==
    /\ fold.call = "foldr"
    /\ fold.f = "front_pusher"
    /\ fold.init = VecV(<< >>)
    /\ fold.c = <<0, MaxVal>>
    /\ fold.ret = VecV(<<0, MaxVal>>)

\* f1(f2(...fn(x))) for the pack <<f1, ..., fn>>.
RECURSIVE Nested(_, _)
Nested(fs, x) == IF fs = << >> THEN x ELSE Head(fs)[Nested(Tail(fs), x)]

(* C22: compose(f, g)(x) is f(g(x)) and compose(f, g, h)(x) is f(g(h(x))): *)
(* the composition the test asked for is a value, that of the rightmost    *)
(* function applied first and the leftmost last.                           *)
C22_ComposeRightmostFirst ==
    composed.set =>
        composed.ret = Value(Nested(composed.fs, composed.x))

(* C23: the arguments given one by one reach the curried function in the   *)
(* order given; no application but the last calls it, the last calls it    *)
(* once, and each finished application of the same partial application has *)
(* the result of its own last argument.                                    *)
C23_Curry ==
    curried.kind = "curried" =>
        LET F(xs) == IF Len(xs) = 3
                 THEN xs[1] + xs[2] + xs[3]
                 ELSE mul_times(xs[1], xs[2])
        IN  /\ Len(cinvoked) = Len(results)
            /\ \A i \in 1..Len(results) :
                  /\ cinvoked[i].args = Append(applied, results[i].x)
                  /\ results[i].v = F(Append(applied, results[i].x))
                  /\ cinvoked[i].res = results[i].v

C23_Witness ==
    /\ curried.kind = "curried"
    /\ applied = <<0, MaxVal>>
    /\ Len(results) = 2
    /\ results[1].x # results[2].x
    /\ results[1].v # results[2].v

(* C24: for an Optional that make_optional returned, of a T whose          *)
(* destructor shows, the flag that the destructor of a T built from the    *)
(* arguments sets is clear for as long as the Optional lives untouched,    *)
(* and is set once the Optional's lifetime has ended.                      *)
C24_MakeOptionalLifetime ==
    [][ /\ (~T_trivial /\ op'.name = "make_optional" /\ phase' = "alive")
              => ~destructed'
        /\ (~T_trivial /\ op.name = "make_optional" /\ phase' = "destroyed")
              => destructed' ]_vars

(* C25: while the Optional lives, its slot holds a T that a constructor    *)
(* made and no destructor has ended exactly when the flag is set, and none *)
(* is left once the Optional is destroyed.                                 *)
C25_LiveIffOccupied ==
    /\ phase = "alive" => (constructed <=> m_storage.has_value)
    /\ phase = "destroyed" => ~constructed

(* C27: an emplace whose construction of the new T fails leaves the        *)
(* Optional as it was: the same flag and the same occupant.                *)
C27_EmplaceFailureKeepsState ==
    [][ op'.name = "emplace_threw"
          => /\ m_storage'.has_value = m_storage.has_value
             /\ m_storage.has_value => ReadValue(m_storage') = ReadValue(m_storage)
      ]_vars

(* C29: assigning an Optional to itself through an assignment operator     *)
(* that takes an Optional leaves it as engaged as it was, with the value   *)
(* it held.                                                                *)
C29_SelfAssignment ==
    [][ op'.name \in {"assign_optional_self", "assign_implicit_self"}
          => /\ m_storage'.has_value = m_storage.has_value
             /\ m_storage.has_value => ReadValue(m_storage') = ReadValue(m_storage)
      ]_vars

(* C28: a get() in which the wrapped function fails hands the failure to   *)
(* the caller and leaves the Lazy as it was, unevaluated with nothing in b, *)
(* so that its destructor destroys nothing and a get() of it runs the      *)
(* function again; the flag becomes set only in a get() whose run of the   *)
(* function returned, with the result in b.                                *)
C28_FailureLeavesUnevaluated ==
    [][ /\ (lgets' = lgets + 1 /\ lret'.kind = "throw") =>
              /\ ~lazy.evaluated
              /\ lazy' = lazy
              /\ ~Lazy_has_evaluated(lazy')
              /\ ~lazy'.b.live
              /\ lphase' = "alive"
              /\ Len(linvoked') = Len(linvoked) + 1
              /\ linvoked'[Len(linvoked')].res.threw
        /\ (lgets' = lgets + 1 /\ ~lazy.evaluated /\ lphase' = "alive") =>
              Len(linvoked') = Len(linvoked) + 1
        /\ (lphase = "alive" /\ lphase' = "destroyed" /\ ~lazy.evaluated) =>
              ldestroyed' = 0
        /\ (lazy'.evaluated /\ ~lazy.evaluated) =>
              /\ lgets' = lgets + 1
              /\ lret'.kind = "value"
              /\ lazy'.b = [live |-> TRUE, value |-> lret'.v]
              /\ ~linvoked'[Len(linvoked')].res.threw ]_vars

C28_Witness ==
    /\ lphase = "destroyed"
    /\ lgets = 3
    /\ Len(linvoked) = 3
    /\ linvoked[1].res.threw
    /\ linvoked[2].res.threw
    /\ ~linvoked[3].res.threw
    /\ lazy.evaluated
    /\ ldestroyed = 1

\* The threads that entered the body of the if.
Entered == {t \in Threads : rthread[t].entered}

(* C26: nothing keeps a thread out of the body of get()'s if but the flag: *)
(* a thread that calls get() while the flag is unset enters it whatever    *)
(* the other threads are doing, each thread that entered runs the wrapped  *)
(* function and constructs its result in b, and so threads that all pass   *)
(* the check before the flag is set run the function and construct in the  *)
(* same b once each.                                                       *)
C26_RaceOnFirstEvaluation ==
    [][ /\ \A t \in Threads :
              (rthread[t].pc = "call" /\ rthread'[t].pc # "call") =>
                  (rthread'[t].entered <=> ~rlazy.evaluated)
        /\ Len(rinvoked') = Cardinality({t \in Entered' : rthread'[t].pc # "in_if"})
        /\ rbuilt' = Cardinality({t \in Entered' : rthread'[t].pc \notin {"in_if", "new"}})
        /\ (\A t \in Threads : rthread'[t].pc = "done" /\ rthread'[t].entered) =>
              /\ Len(rinvoked') = NumThreads
              /\ rbuilt' = NumThreads ]_vars

C26_Witness ==
    /\ \A t \in {1, 2} : rthread[t].pc = "done" /\ rthread[t].entered
    /\ Len(rinvoked) = 2
    /\ rinvoked[1].thread # rinvoked[2].thread
    /\ rinvoked[1].v # rinvoked[2].v
    /\ rbuilt = 2
    /\ rthread[1].v # rthread[2].v

====
